---- MODULE Spec2Model ----
(***************************************************************************)
(* Model of the Discord chat bot of goravine/openai-discord:               *)
(*   - Bot.chunkConversation (src/src/bot/index.ts:219-238), a pure        *)
(*     function, exercised by the specification SpecChunk;                 *)
(*   - the 'messageCreate' handler (src/src/bot/index.ts:146-215 and its   *)
(*     earlier single-request version src/unnamed/part_001:316-378), an    *)
(*     async function whose await points are the steps of the state        *)
(*     machine, exercised by Spec (short texts, overlapping handlers),     *)
(*     SpecLong (long texts, several chunks, one handler at a time),       *)
(*     SpecTwo (two channels), SpecSend (the outbound operations that     *)
(*     are issued without await resolve or reject later), SpecOk (no       *)
(*     failures), SpecSeq (one turn after the other) and SpecLive (every   *)
(*     awaited promise settles);                                           *)
(*   - the for loop of chunkConversation step by step (SpecChunkLoop);     *)
(*   - Bot.run (src/src/bot/index.ts:84-128): the login and the            *)
(*     registration of the slash commands (SpecStart).                     *)
(*                                                                         *)
(* A text is the sequence of its characters (one-character strings).       *)
(* Variables and record fields marked "ghost" are not state of the program:*)
(* they record what happened so that properties can talk about it.         *)
(***************************************************************************)
EXTENDS Integers, Sequences, FiniteSets, TLC

VARIABLES
    proc,                 \* the process: its state, the outcome of login and of registration
    version,              \* which version of the handler is deployed
    conversationHistory,  \* Bot.conversationHistory: channel id -> array of messages
    handlers,             \* the running invocations of the messageCreate handler
    network,              \* completion requests (axios.post) in flight
    appended,             \* ghost: per channel, every entry ever pushed, in push order
    received,             \* ghost: number of messages accepted so far
    finished,             \* ghost: what the invocation that returned last did
    observe,              \* ghost: whether `finished` is recorded in this run
    floating,             \* the outbound operations issued without await, in flight
    cIn,                  \* chunkConversation harness: argument conversation
    cBudget,              \* chunkConversation harness: argument tokensPerChunk
    cOut,                 \* chunkConversation harness: returned chunks
    cPc,                  \* chunkConversation harness: "call", "loop" or "returned"
    cI,                   \* chunkConversation, step by step: position of the for loop
    cCur                  \* chunkConversation, step by step: currentChunk

vars ==
    << proc, version, conversationHistory, handlers, network, appended, received,
       finished, observe, floating, cIn, cBudget, cOut, cPc, cI, cCur >>

botVars ==
    << proc, version, conversationHistory, handlers, network, appended, received,
       finished, observe, floating >>

chunkVars ==
    << cIn, cBudget, cOut, cPc, cI, cCur >>

(***************************************************************************)
(* Program constants.                                                      *)
(***************************************************************************)
\* if (conversation.length > 10)
MaxConversationLength ==
    10

\* const tokensPerChunk = 1024;
tokensPerChunk ==
    1024

\* The outbound-segment limit of the specification (section 4.3); the source
\* has no such constant.
SegmentLimit ==
    1800

(***************************************************************************)
(* Bounds of the model.                                                    *)
(***************************************************************************)
\* Spec: number of messages accepted (mention, non-empty content) in one run
MaxMessages ==
    2

\* Spec: number of handler invocations that may be suspended at the same time
MaxInFlight ==
    2

\* SpecLong: number of messages accepted in one run
MaxLongMessages ==
    2

\* SpecChunk: length of the conversation passed to chunkConversation
MaxLen ==
    3

\* SpecChunk: largest tokensPerChunk passed to chunkConversation
MaxBudget ==
    4

\* SpecSend: number of messages accepted in one run
MaxSendMessages ==
    2

\* SpecStart: number of messages accepted in one run
MaxStartMessages ==
    1

\* SpecSend: number of unawaited empty-content notices in flight on a channel
\* beyond which no further message without content arrives
MaxFloating ==
    1

(***************************************************************************)
(* Texts.                                                                  *)
(***************************************************************************)
TxtHello ==
    <<"h", "e", "l", "l", "o">>

TxtHiThere ==
    <<"h", "i", " ", "t", "h", "e", "r", "e">>

TxtAB ==
    <<"a", " ", "b">>

TxtABC ==
    <<"a", " ", "b", " ", "c">>

\* a user text of tokensPerChunk + 1 words: "a", 1024 spaces, "b"
TxtBig ==
    <<"a">> \o [i \in 1..tokensPerChunk |-> " "] \o <<"b">>

\* a completion of 4000 characters
TxtLong ==
    [i \in 1..4000 |-> "x"]

\* the bot's mention as it appears in message.content: <@9>
BotMention ==
    <<"<", "@", "9", ">">>

\* message.author.toString(): <@7>
AuthorMention ==
    <<"<", "@", "7", ">">>

TxtThinking ==
    <<"T", "h", "i", "n", "k", "i", "n", "g", ".", ".", ".">>

TxtNoContent ==
    <<"E", "R", "R", "O", "R", ":", " ", "N", "o", " ", "m", "e", "s", "s", "a", "g", "e", " ",
      "c", "o", "n", "t", "e", "n", "t", " ", "p", "r", "o", "v", "i", "d", "e", "d", ".">>

TxtErrorPrefix ==
    <<"E", "R", "R", "O", "R", ":", " ", "F", "a", "i", "l", "e", "d", " ", "t", "o", " ",
      "g", "e", "t", " ", "c", "h", "a", "t", " ", "c", "o", "m", "p", "l", "e", "t", "i", "o", "n",
      ":", " ">>

\* (error as AxiosError).message of a failed request or send
TxtErrMessage ==
    <<"4", "2", "9">>

Digits ==
    {"0", "1", "2", "3", "4", "5", "6", "7", "8", "9"}

\* content.split(' ').length: the number of pieces between single spaces
SplitLength(content) ==
    Cardinality({i \in 1..Len(content) : content[i] = " "}) + 1

\* whether /<@!?\d+>/ matches text[i..j]
MentionAt(text, i, j) ==
    LET d == IF i + 2 <= Len(text) /\ text[i + 2] = "!" THEN i + 3 ELSE i + 2
    IN  /\ j <= Len(text)
        /\ i + 1 <= Len(text)
        /\ text[i] = "<"
        /\ text[i + 1] = "@"
        /\ d < j
        /\ \A k \in d..(j - 1) : text[k] \in Digits
        /\ text[j] = ">"

\* content.replace(/<@!?\d+>/, ''): the first (leftmost) match is removed
StripMention(text) ==
    LET starts == {i \in 1..Len(text) :
                        text[i] = "<" /\ \E j \in i..Len(text) : MentionAt(text, i, j)}
    IN  IF starts = {}
        THEN text
        ELSE LET i == CHOOSE s \in starts : \A t \in starts : s <= t
                 j == CHOOSE e \in i..Len(text) : MentionAt(text, i, e)
             IN  SubSeq(text, 1, i - 1) \o SubSeq(text, j + 1, Len(text))

\* String.prototype.trim, the space being the only whitespace of the model
Trim(text) ==
    LET keep == {i \in 1..Len(text) : text[i] # " "}
    IN  IF keep = {}
        THEN <<>>
        ELSE LET lo == CHOOSE a \in keep : \A b \in keep : a <= b
                 hi == CHOOSE a \in keep : \A b \in keep : a >= b
             IN  SubSeq(text, lo, hi)

RECURSIVE Flatten(_)
\* the concatenation of a sequence of sequences
Flatten(seqs) ==
    IF seqs = <<>> THEN <<>> ELSE Head(seqs) \o Flatten(Tail(seqs))

(***************************************************************************)
(* Bot.chunkConversation                                                   *)
(***************************************************************************)
\* a variant of the loop body that forgets the message that closes a chunk
ChunkStepDropsMessage(st, message, budget) ==
    IF Len(st.currentChunk) + SplitLength(message.content) <= budget
    THEN [chunks |-> st.chunks, currentChunk |-> Append(st.currentChunk, message)]
    ELSE [chunks |-> Append(st.chunks, st.currentChunk), currentChunk |-> <<>>]

\* the body of the for loop, on the pair (chunks, currentChunk)
ChunkStep(st, message, budget) ==
    IF Len(st.currentChunk) + SplitLength(message.content) <= budget
    THEN [chunks |-> st.chunks, currentChunk |-> Append(st.currentChunk, message)]
    ELSE [chunks |-> Append(st.chunks, st.currentChunk), currentChunk |-> <<message>>]

RECURSIVE ChunkLoop(_, _, _, _)
\* for (const message of conversation), from the i-th message on
ChunkLoop(conversation, i, budget, st) ==
    IF i > Len(conversation)
    THEN st
    ELSE ChunkLoop(conversation, i + 1, budget, ChunkStep(st, conversation[i], budget))

\* a variant that pushes the last currentChunk without looking at its length
chunkConversationFlushes(conversation, budget) ==
    LET st == ChunkLoop(conversation, 1, budget, [chunks |-> <<>>, currentChunk |-> <<>>])
    IN  Append(st.chunks, st.currentChunk)

chunkConversation(conversation, budget) ==
    LET st == ChunkLoop(conversation, 1, budget, [chunks |-> <<>>, currentChunk |-> <<>>])
    IN  IF Len(st.currentChunk) > 0
        THEN Append(st.chunks, st.currentChunk)
        ELSE st.chunks

(***************************************************************************)
(* The Conversation Store and the messageCreate handler.                   *)
(***************************************************************************)
AllChannels ==
    {"general", "random"}

Slots ==
    1..MaxInFlight

\* the positions at which a handler invocation is suspended on an await
Awaiting ==
    {"awaitThinking", "awaitCompletion", "awaitReply"}

\* a slot that holds no invocation
Idle ==
    [ pc |-> "idle",
      channelId |-> "",
      messageContent |-> <<>>,       \* const messageContent
      conversationChunks |-> <<>>,   \* const conversationChunks
      idx |-> 0,                     \* position of the for loop over the chunks
      allResponse |-> <<>>,          \* var allResponse
      out |-> <<>>,                  \* ghost: outbound operations issued, in order
      requested |-> <<>>,            \* ghost: chunk numbers of the requests issued
      responses |-> <<>>,            \* ghost: completion texts received, in order
      before |-> <<>> ]              \* ghost: the channel's history when the message arrived

\* ghost: the record kept of an invocation that returned (or rejected) as `how`
Returned(how, rec) ==
    [ how |-> how,
      channelId |-> rec.channelId,
      messageContent |-> rec.messageContent,
      before |-> rec.before,
      nChunks |-> Len(rec.conversationChunks),
      out |-> rec.out,
      requested |-> rec.requested,
      responses |-> rec.responses ]

\* ghost: the value of `finished` after an invocation returned as `how`
Record(how, rec) ==
    IF observe THEN Returned(how, rec) ELSE finished

UserMessage(messageContent) ==
    [role |-> "user", content |-> messageContent]

SystemMessage(text) ==
    [role |-> "system", content |-> text]

Send(kind, text) ==
    [op |-> "send", kind |-> kind, text |-> text]

\* thinkingMessage.delete()
DeleteThinking ==
    [op |-> "delete", kind |-> "thinking", text |-> <<>>]

\* message.channel.send(`ERROR: Failed to get chat completion: ${error.message}`)
SendError(errMessage) ==
    Send("error", TxtErrorPrefix \o errMessage)

\* a variant of the reply text without the author's mention
ReplyTextBare(allResponse) ==
    allResponse

\* `${message.author.toString()} ${allResponse}`
ReplyText(allResponse) ==
    AuthorMention \o <<" ">> \o allResponse

\* a variant of the accumulation that puts each completion before the earlier ones
AccumulatePrepends(allResponse, responseContent) ==
    responseContent \o allResponse

\* a variant of the accumulation that keeps only the last completion
AccumulateOverwrites(allResponse, responseContent) ==
    responseContent

\* allResponse += responseContent
Accumulate(allResponse, responseContent) ==
    allResponse \o responseContent

\* a variant of the append in which all channels share one array
PushUserEverywhere(map, channelId, messageContent) ==
    [c \in DOMAIN map \cup {channelId} |->
        (IF c \in DOMAIN map THEN map[c] ELSE <<>>) \o <<UserMessage(messageContent)>>]

\* a variant of the append that stores a new array holding only the new entry
PushUserResets(map, channelId, messageContent) ==
    [c \in DOMAIN map \cup {channelId} |->
        IF c = channelId THEN <<UserMessage(messageContent)>> ELSE map[c]]

\* let conversation = get(channelId); if (!conversation) {...} else {push}; set(...)
PushUser(map, channelId, messageContent) ==
    IF channelId \in DOMAIN map
    THEN [map EXCEPT ![channelId] = Append(@, UserMessage(messageContent))]
    ELSE [c \in DOMAIN map \cup {channelId} |->
            IF c = channelId THEN <<UserMessage(messageContent)>> ELSE map[c]]

\* a variant of the trim that lets the conversation grow to twelve entries
LimitLengthLax(conversation) ==
    IF Len(conversation) > MaxConversationLength + 2
    THEN Tail(Tail(conversation))
    ELSE conversation

\* a variant of the trim that starts the conversation over
LimitLengthClears(conversation) ==
    IF Len(conversation) > MaxConversationLength
    THEN <<>>
    ELSE conversation

\* a variant of the trim that removes only the oldest entry
LimitLengthOnce(conversation) ==
    IF Len(conversation) > MaxConversationLength
    THEN Tail(conversation)
    ELSE conversation

\* a variant of the trim that removes the two newest entries
LimitLengthPops(conversation) ==
    IF Len(conversation) > MaxConversationLength
    THEN SubSeq(conversation, 1, Len(conversation) - 2)
    ELSE conversation

\* if (conversation.length > 10) { conversation.shift(); conversation.shift(); }
LimitLength(conversation) ==
    IF Len(conversation) > MaxConversationLength
    THEN Tail(Tail(conversation))
    ELSE conversation

\* a variant of the loop that posts the requests of all remaining chunks at once
PostCompletionAll(h, chunks, i) ==
    {[h |-> h, idx |-> k, messages |-> chunks[k]] : k \in i..Len(chunks)}

\* axios.post(..., { messages: chunk, ... }) for the i-th chunk
PostCompletion(h, chunks, i) ==
    {[h |-> h, idx |-> i, messages |-> chunks[i]]}

RECURSIVE IdxInOrder(_)
\* ghost: the chunk numbers of a set of requests, ascending
IdxInOrder(reqs) ==
    IF reqs = {}
    THEN <<>>
    ELSE LET r == CHOOSE x \in reqs : \A y \in reqs : x.idx <= y.idx
         IN  <<r.idx>> \o IdxInOrder(reqs \ {r})

\* the process after a successful start: logged in, slash commands registered
Started ==
    [state |-> "serving", login |-> "ok", registration |-> "ok"]

\* the client is logged in and the process has not exited: events are handled
Serving ==
    proc.state = "serving"

\* no outbound operation issued without await is in flight; `track` tells
\* whether the run keeps account of them, `unhandled` whether a promise nobody
\* awaits or catches has rejected
NoFloating(track) ==
    [ track |-> track,
      pending |-> [c \in AllChannels |-> [send |-> 0, delete |-> 0]],
      unhandled |-> FALSE ]

\* message.channel.send(...) and thinkingMessage.delete() called without await:
\* `sends` sends and `deletes` deletes more are in flight on the channel
Float(fl, channelId, sends, deletes) ==
    IF fl.track
    THEN [fl EXCEPT !.pending[channelId] =
            [send |-> @.send + sends, delete |-> @.delete + deletes]]
    ELSE fl

\* a promise rejected that no code awaits or catches
Unhandled(fl) ==
    IF fl.track THEN [fl EXCEPT !.unhandled = TRUE] ELSE fl

Busy ==
    {g \in Slots : handlers[g].pc \in Awaiting}

\* an accepted message starts an invocation in slot h (the lowest free slot)
CanDispatch(h, limit, maxBusy) ==
    /\ Serving
    /\ received < limit
    /\ h \notin Busy
    /\ \A g \in Slots : g < h => g \in Busy
    /\ Cardinality(Busy) < maxBusy

\* a variant that takes every message for one that mentions the bot
MessageIgnoredAnswers(channelId, content) ==
    /\ Serving
    /\ conversationHistory' = PushUser(conversationHistory, channelId, content)
    /\ finished' = Record("ignored",
            [Idle EXCEPT !.channelId = channelId, !.out = <<Send("thinking", TxtThinking)>>])
    /\ UNCHANGED <<proc, version, handlers, network, appended, received, observe, floating>>
    /\ UNCHANGED chunkVars

\* messageCreate, message.mentions.has(client.user) false: nothing is done
MessageIgnored(channelId, content) ==
    /\ Serving
    /\ finished' = Record("ignored", [Idle EXCEPT !.channelId = channelId])
    /\ UNCHANGED <<proc, version, conversationHistory, handlers, network, appended, received, observe,
                   floating>>
    /\ UNCHANGED chunkVars

\* a variant that pushes the user entry before it looks at messageContent
MessageEmptyStored(channelId, content) ==
    /\ Serving
    /\ Trim(StripMention(content)) = <<>>
    /\ floating.pending[channelId].send < MaxFloating
    /\ conversationHistory' = PushUser(conversationHistory, channelId, <<>>)
    /\ finished' = Record("noContent",
            [Idle EXCEPT !.channelId = channelId, !.out = <<Send("notice", TxtNoContent)>>])
    /\ floating' = Float(floating, channelId, 1, 0)
    /\ UNCHANGED <<proc, version, handlers, network, appended, received, observe>>
    /\ UNCHANGED chunkVars

\* messageCreate, mention, empty messageContent: the notice is sent (not awaited)
MessageEmpty(channelId, content) ==
    /\ Serving
    /\ Trim(StripMention(content)) = <<>>
    /\ floating.pending[channelId].send < MaxFloating
    /\ finished' = Record("noContent",
            [Idle EXCEPT !.channelId = channelId, !.out = <<Send("notice", TxtNoContent)>>])
    /\ floating' = Float(floating, channelId, 1, 0)
    /\ UNCHANGED <<proc, version, conversationHistory, handlers, network, appended, received, observe>>
    /\ UNCHANGED chunkVars

\* messageCreate, mention, non-empty messageContent: up to await send('Thinking...')
MessageAccepted(h, channelId, content, limit, maxBusy) ==
    LET messageContent == Trim(StripMention(content))
    IN  /\ CanDispatch(h, limit, maxBusy)
        /\ messageContent # <<>>
        /\ conversationHistory' = PushUser(conversationHistory, channelId, messageContent)
        /\ appended' = [appended EXCEPT ![channelId] = Append(@, UserMessage(messageContent))]
        /\ handlers' = [handlers EXCEPT ![h] =
                [Idle EXCEPT !.pc = "awaitThinking", !.channelId = channelId,
                             !.messageContent = messageContent,
                             !.before = IF channelId \in DOMAIN conversationHistory
                                        THEN conversationHistory[channelId] ELSE <<>>,
                             !.out = <<Send("thinking", TxtThinking)>>]]
        /\ received' = received + 1
        /\ UNCHANGED <<proc, version, network, finished, observe, floating>>
        /\ UNCHANGED chunkVars

\* a variant of the loop that stores the text received so far with each request
LoopNextStoresPartial(h, rec, net) ==
    LET reply == SystemMessage(rec.allResponse)
        last == ~(rec.idx < Len(rec.conversationChunks))
    IN  /\ network' = IF last THEN net
                      ELSE net \cup PostCompletion(h, rec.conversationChunks, rec.idx + 1)
        /\ conversationHistory' = [conversationHistory EXCEPT ![rec.channelId] =
                IF last /\ version = "single" THEN LimitLength(Append(@, reply))
                ELSE Append(@, reply)]
        /\ appended' = [appended EXCEPT ![rec.channelId] = Append(@, reply)]
        /\ handlers' = [handlers EXCEPT ![h] =
                IF last
                THEN [rec EXCEPT !.pc = "awaitReply",
                                 !.out = Append(@, Send("reply", ReplyText(rec.allResponse)))]
                ELSE [rec EXCEPT !.pc = "awaitCompletion", !.idx = rec.idx + 1,
                                 !.requested = Append(@, rec.idx + 1)]]

\* the for loop over conversationChunks from position rec.idx on, up to the next
\* await: the next request, or after the last chunk the push of the reply (and,
\* in the single-request version, the trim) and the send of the reply
LoopNext(h, rec, net) ==
    IF rec.idx < Len(rec.conversationChunks)
    THEN LET posted == PostCompletion(h, rec.conversationChunks, rec.idx + 1)
         IN  /\ network' = net \cup posted
             /\ handlers' = [handlers EXCEPT ![h] =
                    [rec EXCEPT !.pc = "awaitCompletion", !.idx = rec.idx + 1,
                                !.requested = @ \o IdxInOrder(posted)]]
             /\ UNCHANGED <<conversationHistory, appended>>
    ELSE LET reply == SystemMessage(rec.allResponse)
             pushed == Append(conversationHistory[rec.channelId], reply)
         IN  /\ network' = net
             /\ conversationHistory' = [conversationHistory EXCEPT ![rec.channelId] =
                    IF version = "single" THEN LimitLength(pushed) ELSE pushed]
             /\ appended' = [appended EXCEPT ![rec.channelId] = Append(@, reply)]
             /\ handlers' = [handlers EXCEPT ![h] =
                    [rec EXCEPT !.pc = "awaitReply",
                                !.out = Append(@, Send("reply", ReplyText(rec.allResponse)))]]

\* send('Thinking...') resolved: the conversation is chunked, the first request posted
ThinkingSent(h) ==
    /\ Serving
    /\ handlers[h].pc = "awaitThinking"
    /\ LET conversation == conversationHistory[handlers[h].channelId]
           chunks == IF version = "chunked"
                     THEN chunkConversation(conversation, tokensPerChunk)
                     ELSE <<conversation>>
       IN  LoopNext(h, [handlers[h] EXCEPT !.conversationChunks = chunks], network)
    /\ UNCHANGED <<proc, version, received, finished, observe, floating>>
    /\ UNCHANGED chunkVars

\* send('Thinking...') rejected, outside the try: the handler's promise rejects
ThinkingFailed(h) ==
    /\ Serving
    /\ handlers[h].pc = "awaitThinking"
    /\ handlers' = [handlers EXCEPT ![h] = Idle]
    /\ finished' = Record("rejected", handlers[h])
    /\ floating' = Unhandled(floating)
    /\ UNCHANGED <<proc, version, conversationHistory, network, appended, received, observe>>
    /\ UNCHANGED chunkVars

\* axios.post resolved with the completion text responseContent
CompletionResponse(h, responseContent) ==
    /\ Serving
    /\ handlers[h].pc = "awaitCompletion"
    /\ \E req \in network :
        /\ req.h = h
        /\ LoopNext(h,
                [handlers[h] EXCEPT
                    !.allResponse = Accumulate(@, responseContent),
                    !.responses = Append(@, responseContent)],
                network \ {req})
    /\ UNCHANGED <<proc, version, received, finished, observe, floating>>
    /\ UNCHANGED chunkVars

\* the catch block: the error is sent, the placeholder deleted (neither awaited)
Catch(h, errMessage) ==
    /\ handlers' = [handlers EXCEPT ![h] = Idle]
    /\ finished' = Record("failed",
            [handlers[h] EXCEPT !.out = @ \o <<SendError(errMessage), DeleteThinking>>])
    /\ floating' = Float(floating, handlers[h].channelId, 1, 1)

\* a variant of the catch block that takes the user entry back out of the history
CompletionFailedRollsBack(h, errMessage) ==
    /\ Serving
    /\ handlers[h].pc = "awaitCompletion"
    /\ \E req \in network :
        /\ req.h = h
        /\ network' = network \ {req}
    /\ Catch(h, errMessage)
    /\ conversationHistory' = [conversationHistory EXCEPT ![handlers[h].channelId] =
            SubSeq(@, 1, Len(@) - 1)]
    /\ UNCHANGED <<proc, version, appended, received, observe>>
    /\ UNCHANGED chunkVars

\* a variant that posts the failed request again instead of giving up
CompletionFailedRetries(h, errMessage) ==
    /\ Serving
    /\ handlers[h].pc = "awaitCompletion"
    /\ handlers' = [handlers EXCEPT ![h].requested = Append(@, handlers[h].idx)]
    /\ UNCHANGED <<proc, version, conversationHistory, network, appended, received, finished,
                   observe, floating>>
    /\ UNCHANGED chunkVars

\* axios.post rejected (or the response has no choices): the catch block
CompletionFailed(h, errMessage) ==
    /\ Serving
    /\ handlers[h].pc = "awaitCompletion"
    /\ \E req \in network :
        /\ req.h = h
        /\ network' = network \ {req}
    /\ Catch(h, errMessage)
    /\ UNCHANGED <<proc, version, conversationHistory, appended, received, observe>>
    /\ UNCHANGED chunkVars

\* a variant of the success path that leaves the placeholder in the channel
ReplySentKeepsPlaceholder(h) ==
    /\ Serving
    /\ handlers[h].pc = "awaitReply"
    /\ conversationHistory' = [conversationHistory EXCEPT ![handlers[h].channelId] =
            IF version = "chunked" THEN LimitLength(@) ELSE @]
    /\ handlers' = [handlers EXCEPT ![h] = Idle]
    /\ finished' = Record("done", handlers[h])
    /\ UNCHANGED <<proc, version, network, appended, received, observe, floating>>
    /\ UNCHANGED chunkVars

\* the send of the reply resolved: (the trim, in the chunked version,) the delete
ReplySent(h) ==
    /\ Serving
    /\ handlers[h].pc = "awaitReply"
    /\ conversationHistory' = [conversationHistory EXCEPT ![handlers[h].channelId] =
            IF version = "chunked" THEN LimitLength(@) ELSE @]
    /\ handlers' = [handlers EXCEPT ![h] = Idle]
    /\ finished' = Record("done", [handlers[h] EXCEPT !.out = Append(@, DeleteThinking)])
    /\ floating' = Float(floating, handlers[h].channelId, 0, 1)
    /\ UNCHANGED <<proc, version, network, appended, received, observe>>
    /\ UNCHANGED chunkVars

\* the send of the reply rejected: the catch block
ReplyFailed(h, errMessage) ==
    /\ Serving
    /\ handlers[h].pc = "awaitReply"
    /\ Catch(h, errMessage)
    /\ UNCHANGED <<proc, version, conversationHistory, network, appended, received, observe>>
    /\ UNCHANGED chunkVars

\* an outbound operation (op: "send" or "delete") issued without await resolved
FloatingSettled(channelId, op) ==
    /\ Serving
    /\ floating.pending[channelId][op] > 0
    /\ floating' = [floating EXCEPT !.pending[channelId][op] = @ - 1]
    /\ UNCHANGED <<proc, version, conversationHistory, handlers, network, appended, received,
                   finished, observe>>
    /\ UNCHANGED chunkVars

\* an outbound operation issued without await rejected: nothing handles it
FloatingRejected(channelId, op) ==
    /\ Serving
    /\ floating.pending[channelId][op] > 0
    /\ floating' = [floating EXCEPT !.pending[channelId][op] = @ - 1, !.unhandled = TRUE]
    /\ UNCHANGED <<proc, version, conversationHistory, handlers, network, appended, received,
                   finished, observe>>
    /\ UNCHANGED chunkVars

\* this._client.login(...) resolved: the client is ready, the ready handler
\* posts the registration of the slash commands (await rest.put)
LoginSucceeded ==
    /\ proc.state = "starting"
    /\ proc' = [state |-> "serving", login |-> "ok", registration |-> "pending"]
    /\ UNCHANGED <<version, conversationHistory, handlers, network, appended, received,
                   finished, observe, floating>>
    /\ UNCHANGED chunkVars

\* a variant of the failed login that logs the error and goes on
LoginFailedGoesOn ==
    /\ proc.state = "starting"
    /\ proc' = [state |-> "serving", login |-> "failed", registration |-> "none"]
    /\ UNCHANGED <<version, conversationHistory, handlers, network, appended, received,
                   finished, observe, floating>>
    /\ UNCHANGED chunkVars

\* this._client.login(...) rejected: .catch logs and calls process.exit(1)
LoginFailed ==
    /\ proc.state = "starting"
    /\ proc' = [state |-> "exited", login |-> "failed", registration |-> "none"]
    /\ UNCHANGED <<version, conversationHistory, handlers, network, appended, received,
                   finished, observe, floating>>
    /\ UNCHANGED chunkVars

\* rest.put(Routes.applicationCommands(...)) resolved in the ready handler
RegistrationSucceeded ==
    /\ Serving
    /\ proc.registration = "pending"
    /\ proc' = [proc EXCEPT !.registration = "ok"]
    /\ UNCHANGED <<version, conversationHistory, handlers, network, appended, received,
                   finished, observe, floating>>
    /\ UNCHANGED chunkVars

\* rest.put rejected in the ready handler: catch logs and calls process.exit(1)
RegistrationFailed ==
    /\ Serving
    /\ proc.registration = "pending"
    /\ proc' = [state |-> "exited", login |-> "ok", registration |-> "failed"]
    /\ UNCHANGED <<version, conversationHistory, handlers, network, appended, received,
                   finished, observe, floating>>
    /\ UNCHANGED chunkVars

\* interactionCreate: a slash command is handed to handleSlashCommand
InteractionCreate ==
    /\ Serving
    /\ finished' = Record("interaction", Idle)
    /\ UNCHANGED <<proc, version, conversationHistory, handlers, network, appended, received,
                   observe, floating>>
    /\ UNCHANGED chunkVars

\* new Bot(ai): the empty Conversation Store, no handler running
InitBot ==
    /\ proc = Started
    /\ version \in {"chunked", "single"}
    /\ conversationHistory = [c \in {} |-> <<>>]
    /\ handlers = [h \in Slots |-> Idle]
    /\ network = {}
    /\ appended = [c \in AllChannels |-> <<>>]
    /\ received = 0
    /\ finished = Returned("none", Idle)

\* the chunkConversation harness is not used
NoChunkCall ==
    /\ cIn = <<>>
    /\ cBudget = 0
    /\ cOut = <<>>
    /\ cPc = "unused"
    /\ cI = 0
    /\ cCur = <<>>

(***************************************************************************)
(* Spec: short texts, one channel, overlapping handlers.   A run starts     *)
(* from the state after construction or from the state that five turns on  *)
(* channel "general", handled one after the other and all successful,      *)
(* leave: a history of MaxConversationLength entries.                      *)
(***************************************************************************)
Channels ==
    {"general"}

\* message.content of the events: a mention and a text, a bare mention
RawContents ==
    { BotMention \o <<" ">> \o TxtHello,
      TxtAB \o <<" ">> \o BotMention,
      BotMention \o <<" ">> }

Completions ==
    { TxtHiThere }

\* the history after the turns hello, a b, a b, hello, hello, each answered hi there
FullHistory ==
    << UserMessage(TxtHello), SystemMessage(TxtHiThere),
       UserMessage(TxtAB), SystemMessage(TxtHiThere),
       UserMessage(TxtAB), SystemMessage(TxtHiThere),
       UserMessage(TxtHello), SystemMessage(TxtHiThere),
       UserMessage(TxtHello), SystemMessage(TxtHiThere) >>

InitFull ==
    /\ proc = Started
    /\ version \in {"chunked", "single"}
    /\ conversationHistory = [c \in {"general"} |-> FullHistory]
    /\ handlers = [h \in Slots |-> Idle]
    /\ network = {}
    /\ appended = [c \in AllChannels |-> IF c = "general" THEN FullHistory ELSE <<>>]
    /\ received = 0
    /\ finished = Returned("none", Idle)

Init ==
    /\ InitBot \/ InitFull
    /\ observe = FALSE
    /\ floating = NoFloating(FALSE)
    /\ NoChunkCall

Next ==
    \/ \E c \in Channels : MessageIgnored(c, TxtHello)
    \/ \E c \in Channels, content \in RawContents : MessageEmpty(c, content)
    \/ \E h \in Slots, c \in Channels, content \in RawContents :
            MessageAccepted(h, c, content, MaxMessages, MaxInFlight)
    \/ \E h \in Slots : ThinkingSent(h)
    \/ \E h \in Slots : ThinkingFailed(h)
    \/ \E h \in Slots, text \in Completions : CompletionResponse(h, text)
    \/ \E h \in Slots : CompletionFailed(h, TxtErrMessage)
    \/ \E h \in Slots : ReplySent(h)
    \/ \E h \in Slots : ReplyFailed(h, TxtErrMessage)

Spec ==
    Init /\ [][Next]_vars

(***************************************************************************)
(* SpecLong: the chunked version with long texts, one handler at a time.   *)
(* The user text TxtBig has more words than tokensPerChunk, the completion *)
(* TxtLong more characters than SegmentLimit; every invocation that        *)
(* returns is recorded.                                                    *)
(***************************************************************************)
LongContents ==
    { BotMention \o <<" ">> \o TxtHello,
      BotMention \o <<" ">> \o TxtBig,
      <<" ">> \o BotMention }

\* those of LongContents with nothing but the mention
LongBlank ==
    {content \in LongContents : Trim(StripMention(content)) = <<>>}

LongCompletions ==
    { TxtHiThere, TxtLong }

InitLong ==
    /\ InitBot
    /\ version = "chunked"
    /\ observe = TRUE
    /\ floating = NoFloating(FALSE)
    /\ NoChunkCall

NextLong ==
    \/ MessageIgnored("general", TxtHello)
    \/ \E content \in LongBlank : MessageEmpty("general", content)
    \/ \E h \in Slots, content \in LongContents :
            MessageAccepted(h, "general", content, MaxLongMessages, 1)
    \/ \E h \in Slots : ThinkingSent(h)
    \/ \E h \in Slots : ThinkingFailed(h)
    \/ \E h \in Slots, text \in LongCompletions : CompletionResponse(h, text)
    \/ \E h \in Slots : CompletionFailed(h, TxtErrMessage)
    \/ \E h \in Slots : ReplySent(h)
    \/ \E h \in Slots : ReplyFailed(h, TxtErrMessage)

SpecLong ==
    InitLong /\ [][NextLong]_vars

(***************************************************************************)
(* SpecTwo: two channels, each with its own user text, overlapping         *)
(* handlers.  A run starts from the empty store or from the full history   *)
(* of channel "general".                                                   *)
(***************************************************************************)
\* SpecTwo: number of messages accepted in one run
MaxTwoMessages ==
    2

\* message.channel.id and message.content of the events
TwoEvents ==
    { <<"general", BotMention \o <<" ">> \o TxtHello>>,
      <<"random", TxtABC \o <<" ">> \o BotMention>>,
      <<"random", BotMention>> }

InitTwo ==
    /\ InitBot \/ InitFull
    /\ observe = FALSE
    /\ floating = NoFloating(FALSE)
    /\ NoChunkCall

NextTwo ==
    \/ \E c \in AllChannels : MessageIgnored(c, TxtHello)
    \/ \E e \in TwoEvents : MessageEmpty(e[1], e[2])
    \/ \E h \in Slots, e \in TwoEvents :
            MessageAccepted(h, e[1], e[2], MaxTwoMessages, MaxInFlight)
    \/ \E h \in Slots : ThinkingSent(h)
    \/ \E h \in Slots : ThinkingFailed(h)
    \/ \E h \in Slots, text \in Completions : CompletionResponse(h, text)
    \/ \E h \in Slots : CompletionFailed(h, TxtErrMessage)
    \/ \E h \in Slots : ReplySent(h)
    \/ \E h \in Slots : ReplyFailed(h, TxtErrMessage)

SpecTwo ==
    InitTwo /\ [][NextTwo]_vars

(***************************************************************************)
(* SpecSend: one channel, short texts, overlapping handlers; the run keeps *)
(* account of the outbound operations issued without await, which resolve  *)
(* or reject at any later time, and records every invocation that returns. *)
(***************************************************************************)
SendContents ==
    { BotMention \o <<" ">> \o TxtHello,
      BotMention }

InitSend ==
    /\ InitBot
    /\ observe = TRUE
    /\ floating = NoFloating(TRUE)
    /\ NoChunkCall

NextSend ==
    \/ MessageIgnored("general", TxtHello)
    \/ \E content \in SendContents : MessageEmpty("general", content)
    \/ \E h \in Slots, content \in SendContents :
            MessageAccepted(h, "general", content, MaxSendMessages, MaxInFlight)
    \/ \E h \in Slots : ThinkingSent(h)
    \/ \E h \in Slots : ThinkingFailed(h)
    \/ \E h \in Slots, text \in Completions : CompletionResponse(h, text)
    \/ \E h \in Slots : CompletionFailed(h, TxtErrMessage)
    \/ \E h \in Slots : ReplySent(h)
    \/ \E h \in Slots : ReplyFailed(h, TxtErrMessage)
    \/ \E op \in {"send", "delete"} : FloatingSettled("general", op)
    \/ \E op \in {"send", "delete"} : FloatingRejected("general", op)

SpecSend ==
    InitSend /\ [][NextSend]_vars

(***************************************************************************)
(* SpecLive: the turns of up to MaxLiveMessages messages '<@bot> hello' on  *)
(* the empty store, overlapping, with the assumption that every promise a  *)
(* handler awaits settles (resolves or rejects); the event loop then runs  *)
(* the handler's continuation: weak fairness of the steps of each          *)
(* invocation; every invocation that returns is recorded.                  *)
(***************************************************************************)
\* bound: number of messages accepted in one run of SpecLive
MaxLiveMessages ==
    2

InitLive ==
    /\ InitBot
    /\ observe = TRUE
    /\ floating = NoFloating(FALSE)
    /\ NoChunkCall

\* the promise that invocation h awaits settles and h runs to its next await
Settles(h) ==
    \/ ThinkingSent(h)
    \/ ThinkingFailed(h)
    \/ \E text \in Completions : CompletionResponse(h, text)
    \/ CompletionFailed(h, TxtErrMessage)
    \/ ReplySent(h)
    \/ ReplyFailed(h, TxtErrMessage)

NextLive ==
    \/ \E h \in Slots :
            MessageAccepted(h, "general", BotMention \o <<" ">> \o TxtHello,
                            MaxLiveMessages, MaxInFlight)
    \/ \E h \in Slots : ThinkingSent(h)
    \/ \E h \in Slots : ThinkingFailed(h)
    \/ \E h \in Slots, text \in Completions : CompletionResponse(h, text)
    \/ \E h \in Slots : CompletionFailed(h, TxtErrMessage)
    \/ \E h \in Slots : ReplySent(h)
    \/ \E h \in Slots : ReplyFailed(h, TxtErrMessage)

SpecLive ==
    InitLive /\ [][NextLive]_vars /\ \A h \in Slots : WF_vars(Settles(h))

(***************************************************************************)
(* SpecStart: the process from bot.run() on: the login, the registration   *)
(* of the slash commands in the ready handler, and the events handled      *)
(* once the client is logged in.                                           *)
(***************************************************************************)
\* bot.run() was called: the login is in flight
InitStart ==
    /\ proc = [state |-> "starting", login |-> "pending", registration |-> "none"]
    /\ version \in {"chunked", "single"}
    /\ conversationHistory = [c \in {} |-> <<>>]
    /\ handlers = [h \in Slots |-> Idle]
    /\ network = {}
    /\ appended = [c \in AllChannels |-> <<>>]
    /\ received = 0
    /\ finished = Returned("none", Idle)
    /\ observe = TRUE
    /\ floating = NoFloating(FALSE)
    /\ NoChunkCall

NextStart ==
    \/ LoginSucceeded
    \/ LoginFailed
    \/ RegistrationSucceeded
    \/ RegistrationFailed
    \/ InteractionCreate
    \/ MessageIgnored("general", TxtHello)
    \/ \E content \in SendContents : MessageEmpty("general", content)
    \/ \E h \in Slots, content \in SendContents :
            MessageAccepted(h, "general", content, MaxStartMessages, MaxInFlight)
    \/ \E h \in Slots : ThinkingSent(h)
    \/ \E h \in Slots : ThinkingFailed(h)
    \/ \E h \in Slots, text \in Completions : CompletionResponse(h, text)
    \/ \E h \in Slots : CompletionFailed(h, TxtErrMessage)
    \/ \E h \in Slots : ReplySent(h)
    \/ \E h \in Slots : ReplyFailed(h, TxtErrMessage)

SpecStart ==
    InitStart /\ [][NextStart]_vars

(***************************************************************************)
(* SpecOk: the runs of Spec in which nothing fails: every send and every   *)
(* completion request resolves.  Handlers of the channel overlap.          *)
(***************************************************************************)
NextOk ==
    \/ \E c \in Channels : MessageIgnored(c, TxtHello)
    \/ \E c \in Channels, content \in RawContents : MessageEmpty(c, content)
    \/ \E h \in Slots, c \in Channels, content \in RawContents :
            MessageAccepted(h, c, content, MaxMessages, MaxInFlight)
    \/ \E h \in Slots : ThinkingSent(h)
    \/ \E h \in Slots, text \in Completions : CompletionResponse(h, text)
    \/ \E h \in Slots : ReplySent(h)

SpecOk ==
    Init /\ [][NextOk]_vars

(***************************************************************************)
(* SpecSeq: the turns of one channel one after the other (a message        *)
(* arrives only when no handler is in flight), from the empty store or     *)
(* from a full history; every invocation that returns is recorded.         *)
(***************************************************************************)
InitSeq ==
    /\ InitBot \/ InitFull
    /\ observe = TRUE
    /\ floating = NoFloating(FALSE)
    /\ NoChunkCall

NextSeq ==
    \/ \E c \in Channels : MessageIgnored(c, TxtHello)
    \/ \E c \in Channels, content \in RawContents : MessageEmpty(c, content)
    \/ \E h \in Slots, c \in Channels, content \in RawContents :
            MessageAccepted(h, c, content, MaxMessages, 1)
    \/ \E h \in Slots : ThinkingSent(h)
    \/ \E h \in Slots : ThinkingFailed(h)
    \/ \E h \in Slots, text \in Completions : CompletionResponse(h, text)
    \/ \E h \in Slots : CompletionFailed(h, TxtErrMessage)
    \/ \E h \in Slots : ReplySent(h)
    \/ \E h \in Slots : ReplyFailed(h, TxtErrMessage)

SpecSeq ==
    InitSeq /\ [][NextSeq]_vars

(***************************************************************************)
(* SpecChunk: chunkConversation applied to every conversation of at most   *)
(* MaxLen messages of one to three words and every budget up to MaxBudget. *)
(***************************************************************************)
ChunkMessages ==
    {[role |-> r, content |-> t] : r \in {"user", "system"}, t \in {TxtHello, TxtAB, TxtABC}}

InitChunk ==
    /\ cIn \in UNION {[1..n -> ChunkMessages] : n \in 0..MaxLen}
    /\ cBudget \in 0..MaxBudget
    /\ cOut = <<>>
    /\ cPc = "call"
    /\ cI = 0
    /\ cCur = <<>>
    /\ proc = Started
    /\ version = "chunked"
    /\ conversationHistory = [c \in {} |-> <<>>]
    /\ handlers = [h \in Slots |-> Idle]
    /\ network = {}
    /\ appended = [c \in AllChannels |-> <<>>]
    /\ received = 0
    /\ finished = Returned("none", Idle)
    /\ observe = FALSE
    /\ floating = NoFloating(FALSE)

\* this.chunkConversation(cIn, cBudget)
ChunkCall ==
    /\ cPc = "call"
    /\ cOut' = chunkConversation(cIn, cBudget)
    /\ cPc' = "returned"
    /\ UNCHANGED <<cIn, cBudget, cI, cCur>>
    /\ UNCHANGED botVars

NextChunk ==
    ChunkCall

SpecChunk ==
    InitChunk /\ [][NextChunk]_vars

(***************************************************************************)
(* SpecChunkLoop: chunkConversation step by step, one iteration of its for *)
(* loop at a time, on the same conversations and on the budgets            *)
(* -1..MaxBudget.  The function runs synchronously, so an iteration that   *)
(* can be taken is taken: weak fairness of the steps.                      *)
(***************************************************************************)
\* const chunks = []; let currentChunk = []; the iterator at the first message
InitChunkLoop ==
    /\ cIn \in UNION {[1..n -> ChunkMessages] : n \in 0..MaxLen}
    /\ cBudget \in (-1)..MaxBudget
    /\ cOut = <<>>
    /\ cPc = "loop"
    /\ cI = 1
    /\ cCur = <<>>
    /\ proc = Started
    /\ version = "chunked"
    /\ conversationHistory = [c \in {} |-> <<>>]
    /\ handlers = [h \in Slots |-> Idle]
    /\ network = {}
    /\ appended = [c \in AllChannels |-> <<>>]
    /\ received = 0
    /\ finished = Returned("none", Idle)
    /\ observe = FALSE
    /\ floating = NoFloating(FALSE)

\* a variant of the iteration that, when the message does not fit, closes the
\* chunk and examines the same message again
ChunkIterRetries ==
    /\ cPc = "loop"
    /\ cI <= Len(cIn)
    /\ IF Len(cCur) + SplitLength(cIn[cI].content) <= cBudget
       THEN cCur' = Append(cCur, cIn[cI]) /\ cI' = cI + 1 /\ UNCHANGED cOut
       ELSE /\ cOut' = IF Len(cCur) > 0 THEN Append(cOut, cCur) ELSE cOut
            /\ cCur' = <<>>
            /\ UNCHANGED cI
    /\ UNCHANGED <<cIn, cBudget, cPc>>
    /\ UNCHANGED botVars

\* one iteration of for (const message of conversation)
ChunkIter ==
    /\ cPc = "loop"
    /\ cI <= Len(cIn)
    /\ LET st == ChunkStep([chunks |-> cOut, currentChunk |-> cCur], cIn[cI], cBudget)
       IN  /\ cOut' = st.chunks
           /\ cCur' = st.currentChunk
    /\ cI' = cI + 1
    /\ UNCHANGED <<cIn, cBudget, cPc>>
    /\ UNCHANGED botVars

\* the loop is over: if (currentChunk.length > 0) chunks.push(currentChunk); return chunks
ChunkReturn ==
    /\ cPc = "loop"
    /\ cI > Len(cIn)
    /\ cOut' = IF Len(cCur) > 0 THEN Append(cOut, cCur) ELSE cOut
    /\ cPc' = "returned"
    /\ UNCHANGED <<cIn, cBudget, cI, cCur>>
    /\ UNCHANGED botVars

NextChunkLoop ==
    \/ ChunkIter
    \/ ChunkReturn

SpecChunkLoop ==
    InitChunkLoop /\ [][NextChunkLoop]_vars /\ WF_vars(NextChunkLoop)

(***************************************************************************)
(* Properties of chunkConversation (SpecChunk).                            *)
(***************************************************************************)
RECURSIVE WordCount(_)
\* the summed word count of the messages of a chunk
WordCount(chunk) ==
    IF chunk = <<>>
    THEN 0
    ELSE SplitLength(Head(chunk).content) + WordCount(Tail(chunk))

\* C1 (chunk completeness): the chunks returned by chunkConversation,
\* concatenated in order, are exactly the conversation passed in: no message
\* is lost, duplicated or moved, for every conversation and every budget.
ChunkCompleteness ==
    cPc = "returned" => Flatten(cOut) = cIn

\* C1, its case: a conversation of three messages returned as several chunks,
\* one of which holds more than one message
ChunkCompletenessWitness ==
    /\ cPc = "returned"
    /\ Len(cIn) >= 3
    /\ Len(cOut) >= 2
    /\ \E k \in 1..Len(cOut) : Len(cOut[k]) >= 2

\* C2 (chunk bound), as claimed: every returned chunk other than one made of a
\* single message that alone exceeds the budget has a summed word count of at
\* most tokensPerChunk.
ChunkBound ==
    cPc = "returned" =>
        \A k \in 1..Len(cOut) :
            \/ Len(cOut[k]) = 1 /\ SplitLength(cOut[k][1].content) > cBudget
            \/ WordCount(cOut[k]) <= cBudget

\* C3 (degenerate budget), as claimed: with a budget of 0, or any budget not
\* larger than the word count of the smallest message, n messages come back as
\* n chunks, the i-th holding only the i-th message.
DegenerateBudget ==
    ( /\ cPc = "returned"
      /\ \A i \in 1..Len(cIn) : cBudget <= SplitLength(cIn[i].content) )
        => cOut = [i \in 1..Len(cIn) |-> <<cIn[i]>>]

(***************************************************************************)
(* Properties of the stored history (Spec).                                *)
(***************************************************************************)
\* no invocation for channel c is suspended
Quiet(c) ==
    \A h \in Slots : handlers[h].pc \in Awaiting => handlers[h].channelId # c

\* C4 (history bound), as claimed: whenever no handler of a channel is in
\* flight, the channel's stored history has at most MaxConversationLength (10)
\* entries, whatever turns, successful or failed, were handled before.
HistoryBound ==
    \A c \in DOMAIN conversationHistory :
        Quiet(c) => Len(conversationHistory[c]) <= MaxConversationLength

\* C5 (retained entries are the most recent): in every reachable state the
\* stored history of a channel is a contiguous suffix of the sequence of all
\* entries ever pushed on that channel, in push order, also while handlers of
\* the channel overlap.
RetainedAreMostRecent ==
    \A c \in AllChannels :
        IF c \in DOMAIN conversationHistory
        THEN \E k \in 0..Len(appended[c]) :
                conversationHistory[c] = SubSeq(appended[c], k + 1, Len(appended[c]))
        ELSE appended[c] = <<>>

\* C5, its case: entries were evicted from a channel on which two handlers
\* are suspended at the same time, each having pushed its user entry
RetainedAreMostRecentWitness ==
    \E c \in DOMAIN conversationHistory :
        /\ Len(conversationHistory[c]) < Len(appended[c])
        /\ Len(conversationHistory[c]) > MaxConversationLength
        /\ \A h \in Slots : handlers[h].pc \in Awaiting /\ handlers[h].channelId = c

\* the step of invocation h that holds the trim: the continuation after the
\* send of the reply (chunked version), after the completion (single version)
TrimStep(h) ==
    \/ version = "chunked" /\ ReplySent(h)
    \/ /\ version = "single"
       /\ handlers[h].pc = "awaitCompletion"
       /\ handlers'[h].pc = "awaitReply"

\* C6 (History Trimmer postcondition), as claimed: right after the trim step
\* that follows the push of the reply, the channel's history has at most
\* MaxConversationLength entries, whatever its length before the trim.
TrimPostcondition ==
    [][ \A h \in Slots :
            TrimStep(h) =>
                Len(conversationHistory'[handlers[h].channelId]) <= MaxConversationLength
      ]_vars

(***************************************************************************)
(* Properties of the outbound sends and of the completion requests          *)
(* (SpecLong).                                                             *)
(***************************************************************************)
\* the sends of the reply among the outbound operations `out`, in order
ReplySends(out) ==
    SelectSeq(out, LAMBDA o : o.op = "send" /\ o.kind = "reply")

\* the texts of a sequence of sends, concatenated in order
SentText(sends) ==
    Flatten([i \in 1..Len(sends) |-> sends[i].text])

CeilDiv(a, b) ==
    (a + b - 1) \div b

\* the outbound operations of every invocation the state knows: the suspended
\* ones and the one that returned last
KnownOuts ==
    {handlers[h].out : h \in Slots} \cup {finished.out}

\* C7 (segment bound), as claimed: every outbound send of a reply carries a
\* text of at most SegmentLimit (1800) characters.
SegmentBound ==
    \A out \in KnownOuts :
        \A i \in 1..Len(ReplySends(out)) :
            Len(ReplySends(out)[i].text) <= SegmentLimit

OneReplyOf(out, responses) ==
    ReplySends(out) = <<Send("reply", AuthorMention \o <<" ">> \o Flatten(responses))>>

SegmentCount ==
    \A h \in Slots :
        handlers[h].pc = "awaitReply" =>
            LET sends == ReplySends(handlers[h].out)
            IN  /\ Len(sends) = CeilDiv(Len(handlers[h].allResponse), SegmentLimit)
                /\ \A i \in 1..Len(sends) :
                        IF i < Len(sends)
                        THEN Len(sends[i].text) = SegmentLimit
                        ELSE Len(sends[i].text) <= SegmentLimit

\* the completion requests of invocation h that are in flight
InFlight(h) ==
    {req \in network : req.h = h}

\* C10 (sequential completion calls): an invocation never has two completion
\* requests in flight; the request in flight is the one of the chunk the loop
\* is at, posted after the responses of all earlier chunks were received; the
\* requests posted so far are those of chunks 1, 2, ... in this order, one
\* each, and every chunk has been requested once when the reply is pushed
\* (a failed request ends the loop: the chunks after it are not requested).
SequentialCalls ==
    /\ \A h \in Slots :
        LET rec == handlers[h]
        IN  /\ Cardinality(InFlight(h)) <= 1
            /\ rec.requested = [i \in 1..rec.idx |-> i]
            /\ rec.pc = "awaitCompletion" =>
                    /\ InFlight(h) = {[h |-> h, idx |-> rec.idx,
                                       messages |-> rec.conversationChunks[rec.idx]]}
                    /\ Len(rec.responses) = rec.idx - 1
            /\ rec.pc # "awaitCompletion" => InFlight(h) = {}
            /\ rec.pc = "awaitReply" =>
                    /\ rec.idx = Len(rec.conversationChunks)
                    /\ Len(rec.responses) = rec.idx
    /\ finished.how = "done" =>
            /\ finished.requested = [i \in 1..finished.nChunks |-> i]
            /\ Len(finished.responses) = finished.nChunks

\* C10, its case: the request of the second of two non-empty chunks is in
\* flight, the response of the first received
SequentialCallsWitness ==
    \E h \in Slots :
        /\ handlers[h].pc = "awaitCompletion"
        /\ handlers[h].idx = 2
        /\ Len(handlers[h].conversationChunks[1]) = 2
        /\ Len(handlers[h].responses) = 1
        /\ \E req \in network : req.h = h /\ req.idx = 2

(***************************************************************************)
(* Properties of overlapping handlers of one channel (Spec).               *)
(***************************************************************************)
\* the roles of the entries of a conversation, in order
Roles(conversation) ==
    [i \in 1..Len(conversation) |-> conversation[i].role]

\* two messages were accepted on the empty store, the second while the
\* handler of the first was suspended, both replies were pushed and both
\* handlers have returned
OverlappedAndDone ==
    /\ Busy = {}
    /\ "general" \in DOMAIN conversationHistory
    /\ Roles(appended["general"]) = <<"user", "user", "system", "system">>

\* C11 (lost update on same-channel overlap), as claimed: when two handlers
\* of one channel overlap, the write-back of the one that finishes later
\* overwrites what the other appended, so that the final history lacks an
\* entry that one of the two appended.
LostUpdate ==
    OverlappedAndDone => conversationHistory["general"] # appended["general"]

\* `new` is `old` with at most one entry appended at the end and, only when
\* that makes more than MaxConversationLength entries, the two oldest removed
MergesOnly(old, new) ==
    \E added \in 0..1, d \in {0, 2} :
        /\ Len(new) = Len(old) + added - d
        /\ d = 2 => Len(old) + added > MaxConversationLength
        /\ \A i \in 1..(Len(new) - added) : new[i] = old[i + d]

\* C11, amended: no step of any handler, overlapped or not, overwrites a
\* channel's history: a step leaves it as it is, appends one entry at its end,
\* or removes the two oldest entries of a history of more than
\* MaxConversationLength entries; the entries other handlers appended stay in
\* place (the handlers of a channel push on and write back the same array).
NoLostUpdate ==
    [][ \A c \in DOMAIN conversationHistory' :
            MergesOnly(IF c \in DOMAIN conversationHistory
                       THEN conversationHistory[c] ELSE <<>>,
                       conversationHistory'[c])
      ]_vars

\* C11, its case: both overlapping handlers have written back and the history
\* holds the four entries they pushed, interleaved
NoLostUpdateWitness ==
    /\ OverlappedAndDone
    /\ Roles(conversationHistory["general"]) = <<"user", "user", "system", "system">>

(***************************************************************************)
(* Properties of handlers of different channels (SpecTwo).                 *)
(***************************************************************************)
\* the stored history of channel c, empty when the store has no entry for c
HistoryOf(map, c) ==
    IF c \in DOMAIN map THEN map[c] ELSE <<>>

\* the channels of the invocations that take the step (one that starts has
\* its channel after the step, one that returns had it before)
Stepping ==
    LET moved == {g \in Slots : handlers'[g] # handlers[g]}
    IN  ({handlers[h].channelId : h \in moved} \cup {handlers'[h].channelId : h \in moved})
            \cap AllChannels

\* `part` is a run of consecutive entries of `whole`
IsSlice(part, whole) ==
    \E i \in 1..(Len(whole) + 1), j \in 0..Len(whole) : part = SubSeq(whole, i, j)

\* what the invocations read and what the store holds comes from the own channel
OwnChannelOnly ==
    /\ \A h \in Slots :
            handlers[h].pc \in Awaiting =>
                IsSlice(Flatten(handlers[h].conversationChunks), appended[handlers[h].channelId])
    /\ \A req \in network :
            IsSlice(req.messages, appended[handlers[req.h].channelId])
    /\ \A c \in AllChannels :
            \E k \in 0..Len(appended[c]) :
                HistoryOf(conversationHistory, c) = SubSeq(appended[c], k + 1, Len(appended[c]))

\* C12 (channel isolation): under every interleaving of handlers of two
\* channels, a step changes the stored history of a channel (and the record
\* of what was pushed on it) only when it is the step of an invocation
\* handling a message of that channel; what an invocation read (its chunks and
\* the messages of its requests) is a run of consecutive entries pushed on its
\* own channel, and each channel's history is a suffix of what was pushed on
\* that channel alone.
ChannelIsolation ==
    /\ []OwnChannelOnly
    /\ [][ \A c \in AllChannels :
                ( \/ HistoryOf(conversationHistory', c) # HistoryOf(conversationHistory, c)
                  \/ appended'[c] # appended[c] )
                    => Stepping = {c}
        ]_vars

\* C12, its case: invocations of both channels are suspended at the same
\* time, the one of "random" having pushed its reply while the request of the
\* one of "general" is in flight
ChannelIsolationWitness ==
    \E g, r \in Slots :
        /\ handlers[g].channelId = "general" /\ handlers[g].pc = "awaitCompletion"
        /\ handlers[r].channelId = "random" /\ handlers[r].pc = "awaitReply"
        /\ Len(conversationHistory["random"]) = 2
        /\ Len(conversationHistory["general"]) >= 1

(***************************************************************************)
(* Properties of the handling of one message (SpecSend).                   *)
(***************************************************************************)
\* the step is the handling of a message that returned as `how`
ReturnsAs(how) ==
    /\ finished' # finished
    /\ finished'.how = how

\* C13 (empty user input): the handling of a message that mentions the bot
\* and whose content is empty after mention-stripping and trimming issues one
\* outbound operation, the send of the fixed notice (no placeholder, no
\* delete; one send more is in flight), posts no completion request and leaves the Conversation Store and
\* the running invocations as they are; no user entry of the store has an
\* empty content.
EmptyUserInput ==
    /\ [][ ReturnsAs("noContent") =>
                /\ finished'.out = <<Send("notice", TxtNoContent)>>
                /\ finished'.requested = <<>>
                /\ floating'.pending = [floating.pending EXCEPT
                        ![finished'.channelId].send = @ + 1]
                /\ network' = network
                /\ conversationHistory' = conversationHistory
                /\ appended' = appended
                /\ handlers' = handlers
        ]_vars
    /\ [](\A c \in DOMAIN conversationHistory :
            \A i \in 1..Len(conversationHistory[c]) :
                conversationHistory[c][i].role = "user"
                    => conversationHistory[c][i].content # <<>>)

\* C13, its case: a message with nothing but the mention was handled when the
\* store held the two entries of an earlier turn
EmptyUserInputWitness ==
    /\ finished.how = "noContent"
    /\ finished.out = <<Send("notice", TxtNoContent)>>
    /\ Busy = {}
    /\ "general" \in DOMAIN conversationHistory
    /\ Len(conversationHistory["general"]) = 2

(***************************************************************************)
(* Properties of failures and of the outbound operations (SpecSend).       *)
(***************************************************************************)
\* the sends of the error notice among the outbound operations `out`
ErrorSends(out) ==
    SelectSeq(out, LAMBDA o : o.op = "send" /\ o.kind = "error")

\* C14 (errors caught at the handler boundary), as claimed: no failure met
\* while handling a message (of a completion request, of the send of the
\* placeholder, of the reply or of the error notice, of the delete of the
\* placeholder) escapes as a rejected promise nobody handles, and an
\* invocation that met a failure has sent an error notice to the channel.
ErrorsCaught ==
    /\ ~floating.unhandled
    /\ finished.how # "rejected"
    /\ finished.how = "failed" => Len(ErrorSends(finished.out)) = 1

(***************************************************************************)
(* Properties of a failed completion request (SpecLong).                   *)
(***************************************************************************)
\* the invocation that returned last gave up on a failed completion request
GaveUpOnRequest ==
    /\ finished.how = "failed"
    /\ Len(finished.responses) < Len(finished.requested)

\* C15 (no retry): an invocation never has issued more completion requests
\* than it has received completions plus one, and only a running invocation
\* has a request in flight; the invocation whose request for some chunk
\* failed has requested the chunks up to that one once each and no later
\* one, has sent one error notice and has sent no reply, whatever the
\* completions of the earlier chunks were.
NoRetry ==
    /\ \A h \in Slots : Len(handlers[h].requested) <= Len(handlers[h].responses) + 1
    /\ \A req \in network : handlers[req.h].pc = "awaitCompletion"
    /\ GaveUpOnRequest =>
            /\ finished.requested = [i \in 1..(Len(finished.responses) + 1) |-> i]
            /\ Len(ErrorSends(finished.out)) = 1
            /\ ReplySends(finished.out) = <<>>

\* C15, its case: the request of the second of two chunks failed after the
\* first had been answered, and no request is in flight
NoRetryWitness ==
    /\ GaveUpOnRequest
    /\ finished.nChunks = 2
    /\ finished.responses = <<TxtLong>>
    /\ network = {}

(***************************************************************************)
(* Properties of the outbound operations in flight (SpecSend).             *)
(***************************************************************************)
\* the number of sends to channel c in flight: the awaited ones (placeholder,
\* reply) of the suspended invocations and those issued without await
PendingSends(c) ==
    Cardinality({h \in Slots : /\ handlers[h].channelId = c
                               /\ handlers[h].pc \in {"awaitThinking", "awaitReply"}})
        + floating.pending[c].send

\* C16 (outbound sends are never concurrent), as claimed: at any time at most
\* one send issued by the bot to a given channel is in flight.
SendsNeverConcurrent ==
    \A c \in AllChannels : PendingSends(c) <= 1

(***************************************************************************)
(* Properties of single turns (Spec).                                      *)
(***************************************************************************)
\* the histories h3..h10, new user entry, new system reply that a turn on the
\* full history h1..h10 = FullHistory may leave
AfterOverflowTurn ==
    { SubSeq(FullHistory, 3, MaxConversationLength)
            \o <<UserMessage(Trim(StripMention(content))), SystemMessage(text)>> :
        content \in RawContents, text \in Completions }

\* invocation h is the only one that ran since the history held exactly the
\* MaxConversationLength entries of FullHistory, and it has pushed its reply
AloneOnFull(h) ==
    /\ received = 1
    /\ handlers[h].pc = "awaitReply"
    /\ handlers[h].channelId = "general"
    /\ Len(appended["general"]) = MaxConversationLength + 2
    /\ SubSeq(appended["general"], 1, MaxConversationLength) = FullHistory

\* C17 (history overflow turn): when the history of a channel holds exactly
\* MaxConversationLength (10) entries h1..h10 and one turn that no other
\* overlaps succeeds, the stored history after the turn is h3..h10 followed
\* by the new user entry and the new system reply: 10 entries, the two oldest
\* evicted, the survivors in order.
OverflowTurn ==
    [][ \A h \in Slots :
            (AloneOnFull(h) /\ ReplySent(h)) =>
                /\ Len(conversationHistory'["general"]) = MaxConversationLength
                /\ conversationHistory'["general"] \in AfterOverflowTurn
                /\ conversationHistory'["general"]
                        = SubSeq(appended["general"], 3, MaxConversationLength + 2)
      ]_vars

\* C17, its case: the turn "a b" answered "hi there" on the full history has
\* returned, in the version that trims after the send of the reply
OverflowTurnWitness ==
    /\ version = "chunked"
    /\ Busy = {}
    /\ received = 1
    /\ Len(appended["general"]) = MaxConversationLength + 2
    /\ conversationHistory["general"]
            = SubSeq(FullHistory, 3, MaxConversationLength)
                \o <<UserMessage(TxtAB), SystemMessage(TxtHiThere)>>

(***************************************************************************)
(* The single short exchange (SpecSend).                                   *)
(***************************************************************************)
\* the first message of the run, "hello" on the empty store, was answered
\* "hi there" and its handling has returned, no other message accepted since
HelloAnswered ==
    /\ received = 1
    /\ finished.how = "done"
    /\ finished.responses = <<TxtHiThere>>
    /\ Len(appended["general"]) >= 1
    /\ appended["general"][1] = UserMessage(TxtHello)

\* one chunk, one completion request, and the history of the exchange
OneChunkOneRequest ==
    /\ finished.nChunks = 1
    /\ finished.requested = <<1>>
    /\ conversationHistory["general"]
            = <<UserMessage(TxtHello), SystemMessage(TxtHiThere)>>

\* C18 (single short exchange), as claimed: starting from no history, the
\* message "hello" whose completion returns "hi there" causes one chunk, one
\* completion request and one outbound reply segment whose text is
\* "hi there", and leaves the history [ {user, hello}, {system, hi there} ].
ShortExchange ==
    HelloAnswered =>
        /\ OneChunkOneRequest
        /\ ReplySends(finished.out) = <<Send("reply", TxtHiThere)>>

\* C18, amended: starting from no history, the message "hello" whose
\* completion returns "hi there" causes one chunk, one completion request and
\* one outbound reply send, whose text is the author's mention, a space and
\* "hi there", and leaves the history [ {user, hello}, {system, hi there} ].
ShortExchangeAfterMention ==
    HelloAnswered =>
        /\ OneChunkOneRequest
        /\ ReplySends(finished.out)
                = <<Send("reply", AuthorMention \o <<" ">> \o TxtHiThere)>>

\* C18, its case: the exchange has taken place and nothing else is running
ShortExchangeWitness ==
    /\ HelloAnswered
    /\ Busy = {}
    /\ finished.out[1] = Send("thinking", TxtThinking)

(***************************************************************************)
(* Properties of the steps that change the stored history (Spec).          *)
(***************************************************************************)
\* invocation h takes the step
Moves(h) ==
    handlers'[h] # handlers[h]

\* C19 (the completion call has no side effect on the Conversation Store): the
\* step in which an invocation posts a completion request, the one in which
\* its request fails, and every step in between leave every channel's
\* history as it is; the history changes only in the step that accepts a
\* message (the user entry is appended), in the step that follows the last
\* completion (the reply is appended; the single-request version trims
\* there) and in the step that follows the send of the reply (the trim).
CompletionLeavesStore ==
    [][ /\ \A h \in Slots :
                ( /\ Moves(h)
                  /\ \/ handlers'[h].pc = "awaitCompletion"
                     \/ handlers[h].pc = "awaitCompletion" /\ handlers'[h].pc = "idle" )
                    => conversationHistory' = conversationHistory
        /\ (\A h \in Slots : ~Moves(h)) => conversationHistory' = conversationHistory
        /\ conversationHistory' # conversationHistory =>
                \E h \in Slots :
                    LET c == handlers'[h].channelId
                        b == handlers[h].channelId
                    IN  \/ /\ handlers[h].pc = "idle" /\ handlers'[h].pc = "awaitThinking"
                           /\ Len(conversationHistory'[c])
                                    = Len(HistoryOf(conversationHistory, c)) + 1
                           /\ conversationHistory'[c][Len(conversationHistory'[c])].role = "user"
                        \/ /\ handlers[h].pc = "awaitCompletion" /\ handlers'[h].pc = "awaitReply"
                           /\ LET pushed == Append(conversationHistory[c],
                                        SystemMessage(Flatten(handlers'[h].responses)))
                              IN  conversationHistory'[c] \in {pushed, Tail(Tail(pushed))}
                        \/ /\ handlers[h].pc = "awaitReply" /\ handlers'[h].pc = "idle"
                           /\ conversationHistory'[b] = Tail(Tail(conversationHistory[b]))
      ]_vars

\* C19, its case: the request of an invocation is in flight and the history
\* is no longer the one it posted: another invocation has pushed its reply
\* and trimmed in between
CompletionLeavesStoreWitness ==
    \E h \in Slots :
        /\ handlers[h].pc = "awaitCompletion"
        /\ Busy = {h}
        /\ received = 2
        /\ Len(appended["general"]) = MaxConversationLength + 3
        /\ Len(conversationHistory["general"]) = MaxConversationLength + 1

(***************************************************************************)
(* chunkConversation on the empty conversation (SpecChunk).                *)
(***************************************************************************)
\* C20 (empty input): chunkConversation applied to the empty conversation
\* returns the empty list of chunks, for every budget.
EmptyInput ==
    (cPc = "returned" /\ cIn = <<>>) => cOut = <<>>

\* C20, its case: the call on the empty conversation with the largest budget
\* has returned
EmptyInputWitness ==
    /\ cPc = "returned"
    /\ cIn = <<>>
    /\ cBudget = MaxBudget

(***************************************************************************)
(* Termination of chunkConversation (SpecChunkLoop).                       *)
(***************************************************************************)
\* C21 (chunker termination): for every conversation and every budget, 0 and
\* a negative one included, chunkConversation returns; each iteration of its
\* loop examines the next message, so that it returns after one pass over
\* the conversation, with the chunks of chunkConversation.
ChunkerTerminates ==
    /\ <>(cPc = "returned")
    /\ [][(cPc = "loop" /\ cPc' = "loop") => cI' = cI + 1]_vars
    /\ [](cPc = "returned" =>
            /\ cI = Len(cIn) + 1
            /\ cOut = chunkConversation(cIn, cBudget))

\* C21, its case: the call with budget 0 on a conversation of MaxLen messages
\* has returned
ChunkerTerminatesWitness ==
    /\ cPc = "returned"
    /\ cBudget = 0
    /\ Len(cIn) = MaxLen
    /\ Len(cOut) = MaxLen + 1

(***************************************************************************)
(* Properties of the startup (SpecStart).                                  *)
(***************************************************************************)
\* some event has been handled: a message or an interaction
SomethingHandled ==
    \/ finished.how # "none"
    \/ received > 0
    \/ Busy # {}

\* C22 (fatal startup): once the login has failed, or the registration of the
\* slash commands in the ready handler has failed, the process has exited;
\* an exited process handles nothing and stays exited (no step changes
\* anything); and events are handled only by a process whose login
\* succeeded.
FatalStartup ==
    /\ []((proc.login = "failed" \/ proc.registration = "failed") => proc.state = "exited")
    /\ [](SomethingHandled => proc.login = "ok")
    /\ [][proc.state = "exited" => UNCHANGED vars]_vars

\* C22, its case: the registration failed while the handler of a message was
\* suspended on its completion request; the process has exited
FatalStartupWitness ==
    /\ proc.registration = "failed"
    /\ proc.state = "exited"
    /\ \E h \in Slots : handlers[h].pc = "awaitCompletion"

(***************************************************************************)
(* Lifecycle of the entries of the Conversation Store (SpecTwo).           *)
(***************************************************************************)
\* the step accepts a message of channel c with a non-empty content, and the
\* channel's history after it is that one user entry
CreatedByFirstMessage(c) ==
    \E h \in Slots :
        /\ handlers[h].pc = "idle"
        /\ handlers'[h].pc = "awaitThinking"
        /\ handlers'[h].channelId = c
        /\ Len(conversationHistory'[c]) = 1
        /\ conversationHistory'[c][1].role = "user"
        /\ conversationHistory'[c][1].content # <<>>

\* C23 (history lifecycle): a channel has an entry in the Conversation Store
\* exactly when an entry was ever pushed on it; the entry is created by the
\* step that accepts the channel's first mentioning message with a non-empty
\* content; no step removes the entry of a channel; and a channel's history
\* is never empty.
HistoryLifecycle ==
    /\ [](\A c \in AllChannels :
            /\ (c \in DOMAIN conversationHistory) = (appended[c] # <<>>)
            /\ c \in DOMAIN conversationHistory => Len(conversationHistory[c]) >= 1)
    /\ [][ /\ DOMAIN conversationHistory \subseteq DOMAIN conversationHistory'
           /\ \A c \in DOMAIN conversationHistory' \ DOMAIN conversationHistory :
                    CreatedByFirstMessage(c)
       ]_vars

\* C23, its case: the entry of "random" was created while the full history
\* of "general" lost its two oldest entries to the trim
HistoryLifecycleWitness ==
    /\ DOMAIN conversationHistory = {"general", "random"}
    /\ Len(appended["random"]) = 2
    /\ Len(appended["general"]) = MaxConversationLength + 2
    /\ Len(conversationHistory["general"]) = MaxConversationLength
    /\ Busy = {}

(***************************************************************************)
(* The roles of the stored entries (Spec).                                 *)
(***************************************************************************)
\* C24 (pair eviction preserves role alternation), as claimed: whenever no
\* handler of a channel is in flight, the channel's stored history starts
\* with a user entry and alternates user, system, user, system, ...
RoleAlternation ==
    \A c \in DOMAIN conversationHistory :
        Quiet(c) =>
            \A i \in 1..Len(conversationHistory[c]) :
                conversationHistory[c][i].role = (IF i % 2 = 1 THEN "user" ELSE "system")

(***************************************************************************)
(* The history bound in runs without failures (SpecOk).                    *)
(***************************************************************************)
\* the number of entries that the handlers in flight on channel c have pushed
\* and not yet had the trim look at: the user entry until the reply is pushed,
\* and in the chunked version both entries while the reply is being sent
Untrimmed(c) ==
    LET on(pcs) == Cardinality({h \in Slots : /\ handlers[h].pc \in pcs
                                               /\ handlers[h].channelId = c})
    IN  on({"awaitThinking", "awaitCompletion"})
            + (IF version = "chunked" THEN 2 * on({"awaitReply"}) ELSE 0)

\* C25 (history bound under overlap, success only): in a run in which every
\* completion request and every send succeeds, a channel's history has at
\* most MaxConversationLength (10) entries whenever no handler of the channel
\* is in flight, however the handlers of the channel interleave; while
\* handlers are in flight it exceeds 10 by at most the entries they pushed
\* and have not yet trimmed.
SuccessBound ==
    \A c \in DOMAIN conversationHistory :
        /\ Len(conversationHistory[c]) <= MaxConversationLength + Untrimmed(c)
        /\ Quiet(c) => Len(conversationHistory[c]) <= MaxConversationLength

\* C25, its case: on a full history two handlers overlapped (both user
\* entries were pushed before either reply), both returned, and ten entries
\* are stored
SuccessBoundWitness ==
    /\ Busy = {}
    /\ Len(appended["general"]) = MaxConversationLength + 4
    /\ Roles(SubSeq(appended["general"], MaxConversationLength + 1,
                    MaxConversationLength + 4))
            = <<"user", "user", "system", "system">>
    /\ Len(conversationHistory["general"]) = MaxConversationLength

(***************************************************************************)
(* Empty chunks (SpecChunk).                                               *)
(***************************************************************************)
\* C26 (no empty chunk), as claimed: no chunk returned by chunkConversation
\* is empty, for every conversation and every budget, a budget smaller than
\* the first message's word count included; so there are never more chunks
\* (completion requests) than messages.
NoEmptyChunk ==
    cPc = "returned" =>
        /\ \A k \in 1..Len(cOut) : cOut[k] # <<>>
        /\ Len(cOut) <= Len(cIn)

(***************************************************************************)
(* A turn whose completion request fails (SpecSeq).                        *)
(***************************************************************************)
\* the history of the channel before the turn of `rec`, followed by the user
\* entry of the message that triggered the turn
BeforeAndUser(rec) ==
    Append(rec.before, UserMessage(rec.messageContent))

\* C27 (a failed turn is not rolled back): from the arrival of its message
\* until its completion request fails, and after the handler has returned
\* from that failure, the channel's history is its value before the turn
\* followed by the triggering user entry: the turn has appended no system
\* entry and evicted nothing, also when that leaves eleven entries.
FailedTurnKept ==
    /\ \A h \in Slots :
            handlers[h].pc \in {"awaitThinking", "awaitCompletion"} =>
                conversationHistory[handlers[h].channelId] = BeforeAndUser(handlers[h])
    /\ (Busy = {} /\ GaveUpOnRequest) =>
            conversationHistory[finished.channelId] = BeforeAndUser(finished)

\* C27, its case: the completion request of a turn on a full history failed
\* and the handler has returned; eleven entries are stored
FailedTurnKeptWitness ==
    /\ Busy = {}
    /\ GaveUpOnRequest
    /\ finished.before = FullHistory
    /\ Len(conversationHistory[finished.channelId]) = MaxConversationLength + 1

(***************************************************************************)
(* The 'Thinking...' placeholder (SpecLive).                               *)
(***************************************************************************)
\* the deletes among the outbound operations `out`
Deletes(out) ==
    SelectSeq(out, LAMBDA o : o = DeleteThinking)

\* the placeholder of invocation h was sent and h has not returned yet
PlaceholderUp(h) ==
    handlers[h].pc \in {"awaitCompletion", "awaitReply"}

\* some placeholder is in the channel, not yet deleted
SomePlaceholderUp ==
    \E h \in Slots : PlaceholderUp(h)

IgnoresMessage ==
    /\ finished' # finished
    /\ finished'.how = "ignored"

\* C29 (a message without a mention of the bot): the invocation for such a
\* message changes no channel's history, posts no completion request, sends
\* no placeholder, reply, notice or error, issues no delete and starts
\* nothing that runs later; the invocations in flight are left as they are.
NoMentionNoEffect ==
    /\ [](finished.how = "ignored" =>
            /\ finished.out = <<>>
            /\ finished.requested = <<>>)
    /\ [][ IgnoresMessage =>
            /\ conversationHistory' = conversationHistory
            /\ appended' = appended
            /\ network' = network
            /\ handlers' = handlers
            /\ floating' = floating
            /\ received' = received
       ]_vars

\* C29, its case: a message without a mention was handled while the store
\* held a history and another invocation was waiting for its completion
NoMentionNoEffectWitness ==
    /\ finished.how = "ignored"
    /\ "general" \in DOMAIN conversationHistory
    /\ \E h \in Slots : handlers[h].pc = "awaitCompletion"
    /\ network # {}

(***************************************************************************)
(* The system entry of a turn of several chunks (SpecLong).                *)
(***************************************************************************)
\* the history of the channel before the turn of `rec`, the user entry of its
\* message and one system entry holding the completion texts received, in
\* the order of their chunks
BeforeUserAndReply(rec) ==
    Append(BeforeAndUser(rec), SystemMessage(Flatten(rec.responses)))

\* C30 (one system entry per successful turn): while completions of a turn
\* are outstanding the history holds nothing of the reply, neither whole nor
\* in part; once the completions of all chunks have arrived it holds, after
\* the user entry, exactly one system entry, whose content is the completion
\* texts concatenated in chunk order; a turn that has returned successfully
\* leaves that history (trimmed when longer than MaxConversationLength).
OneSystemEntry ==
    /\ \A h \in Slots :
            LET rec == handlers[h]
                conversation == conversationHistory[rec.channelId]
            IN  /\ rec.pc \in {"awaitThinking", "awaitCompletion"} =>
                        /\ conversation = BeforeAndUser(rec)
                        /\ Len(rec.responses) < Len(rec.conversationChunks)
                                \/ rec.pc = "awaitThinking"
                /\ rec.pc = "awaitReply" =>
                        /\ conversation = BeforeUserAndReply(rec)
                        /\ Len(rec.responses) = Len(rec.conversationChunks)
                        /\ rec.requested = [i \in 1..Len(rec.conversationChunks) |-> i]
    /\ (Busy = {} /\ finished.how = "done") =>
            /\ conversationHistory[finished.channelId]
                    = LimitLength(BeforeUserAndReply(finished))
            /\ Len(finished.responses) = finished.nChunks

\* C30, its case: a turn of two chunks, answered with two different texts,
\* has returned and its one system entry is the last entry of the history
OneSystemEntryWitness ==
    /\ Busy = {}
    /\ finished.how = "done"
    /\ finished.responses = <<TxtHiThere, TxtLong>>
    /\ LET conversation == conversationHistory[finished.channelId]
       IN  conversation[Len(conversation)] = SystemMessage(TxtHiThere \o TxtLong)

====
